---- MODULE Spec2Model ----
(***************************************************************************)
(* CA2UN (src/sci/architectures/CA2UN.py): the sensing operators A / At,   *)
(* the dispersion shift shift_3d / shift_back_3d, the construction of the  *)
(* CAUN module and the unfolding controller CAUN.forward_test.             *)
(*                                                                         *)
(* Tensors are nested sequences indexed from 1 (t[b][c][h][w], y[b][h][w]);*)
(* tensor entries are exact rationals <<n, d>> with d > 0 in lowest terms, *)
(* the idealisation of the float32 values of the code.  The learned        *)
(* networks (DADN.DL, DADN.mlp, LNLT, CAUN.fusion) are functions of their  *)
(* parameters; the parameters are drawn in Init.                           *)
(***************************************************************************)
EXTENDS Integers, Sequences, FiniteSets, TLC

VARIABLES
    ops,        \* harness of the pure operators: inputs and results
    ctor,       \* configuration handed to CAUN.__init__ and what it built
    cfg,        \* self.cfg of the constructed CAUN
    params,     \* learned parameters (seeds of fusion, DADN, LNLT), self.training
    data,       \* the caller's record: Y, mask, and the shapes of H and hsi
    pc,         \* position of CAUN.forward and forward_train / forward_test
    err,        \* the exception that ended the call, "" if none
    i,          \* loop index of forward_test
    z,          \* local z
    z_hat,      \* local z_hat
    z_list,     \* local z_list
    Phi,        \* local Phi (this stage's mask)
    mu,         \* local mu, one rational per batch element
    noise_level,\* local noise_level, one rational per batch element
    Phi_s,      \* local Phi_s
    x,          \* local x
    out,        \* the returned tensor
    hist,       \* history: entry values, executed steps, per-stage inputs
    attn,       \* one call of Attention.forward: its object, inputs and locals
    lnlt        \* one call of LNLT.forward: the shapes of its locals

vars == <<ops, ctor, cfg, params, data, pc, err, i, z, z_hat, z_list, Phi, mu,
          noise_level, Phi_s, x, out, hist, attn, lnlt>>

ctrlVars == <<cfg, params, data, pc, err, i, z, z_hat, z_list, Phi, mu,
              noise_level, Phi_s, x, out, hist>>

None == <<>>

\* v itself; the comparison makes TLC build the tensor once instead of
\* recomputing an entry at every use
Force(v) == IF v = v THEN v ELSE v

-----------------------------------------------------------------------------
(* Bounds of the model.                                                    *)

MaxBands == 2       \* band counts 1..MaxBands
MaxStep == 2        \* dispersion steps up to MaxStep
MaxStage == 10      \* stage counts 0..MaxStage
MaxOpSide == 2      \* batch / height / width of the operator harness inputs

-----------------------------------------------------------------------------
(* Exact rational arithmetic.                                              *)

Abs(n) == IF n < 0 THEN -n ELSE n

RECURSIVE Gcd(_, _)
Gcd(a, b) == IF b = 0 THEN a ELSE Gcd(b, a % b)

RNorm(n, d) ==
    LET g == Gcd(Abs(n), Abs(d))
        s == IF d < 0 THEN -1 ELSE 1
    IN  <<(s * n) \div g, (s * d) \div g>>

R(n) == <<n, 1>>
RZero == <<0, 1>>
ROne == <<1, 1>>
RAdd(p, q) == IF p[2] = q[2] THEN RNorm(p[1] + q[1], p[2])
              ELSE RNorm(p[1] * q[2] + q[1] * p[2], p[2] * q[2])
RNeg(p) == <<-p[1], p[2]>>
RSub(p, q) == RAdd(p, RNeg(q))
RMul(p, q) == LET a == RNorm(p[1], q[2])
                  b == RNorm(q[1], p[2])
              IN  <<a[1] * b[1], a[2] * b[2]>>
RDiv(p, q) == RMul(p, RNorm(q[2], q[1]))
RPos(p) == p[1] > 0
RIsZero(p) == p[1] = 0

-----------------------------------------------------------------------------
(* Tensor shapes and elementwise operations.                               *)

Shape4(t) == <<Len(t), Len(t[1]), Len(t[1][1]), Len(t[1][1][1])>>
Shape3(y) == <<Len(y), Len(y[1]), Len(y[1][1])>>

TAdd(s, t) ==
    Force([b \in 1..Len(s) |-> [c \in 1..Len(s[b]) |-> [h \in 1..Len(s[b][c]) |->
        [w \in 1..Len(s[b][c][h]) |-> RAdd(s[b][c][h][w], t[b][c][h][w])]]]])

TSub(s, t) ==
    Force([b \in 1..Len(s) |-> [c \in 1..Len(s[b]) |-> [h \in 1..Len(s[b][c]) |->
        [w \in 1..Len(s[b][c][h]) |-> RSub(s[b][c][h][w], t[b][c][h][w])]]]])

TMul(s, t) ==
    Force([b \in 1..Len(s) |-> [c \in 1..Len(s[b]) |-> [h \in 1..Len(s[b][c]) |->
        [w \in 1..Len(s[b][c][h]) |-> RMul(s[b][c][h][w], t[b][c][h][w])]]]])

\* t * k for a one-element tensor k
TScale(k, t) ==
    Force([b \in 1..Len(t) |-> [c \in 1..Len(t[b]) |-> [h \in 1..Len(t[b][c]) |->
        [w \in 1..Len(t[b][c][h]) |-> RMul(k, t[b][c][h][w])]]]])

Sub3(s, t) ==
    Force([b \in 1..Len(s) |-> [h \in 1..Len(s[b]) |->
        [w \in 1..Len(s[b][h]) |-> RSub(s[b][h][w], t[b][h][w])]]])

Div3(s, t) ==
    Force([b \in 1..Len(s) |-> [h \in 1..Len(s[b]) |->
        [w \in 1..Len(s[b][h]) |-> RDiv(s[b][h][w], t[b][h][w])]]])

\* mutant: the slice is dropped
CropW_keep(t, n) == t

\* t[:, :, :, :n]: Python slicing clips n to the width of t
CropW(t, n) ==
    LET m == IF n < Len(t[1][1][1]) THEN n ELSE Len(t[1][1][1])
    IN  Force([b \in 1..Len(t) |-> [c \in 1..Len(t[b]) |-> [h \in 1..Len(t[b][c]) |->
            [w \in 1..m |-> t[b][c][h][w]]]]])

\* torch.roll(v, shifts = s) of one row: out[(j + s) mod W] = v[j]
Roll(v, s) == [w \in 1..Len(v) |-> v[((w - 1 - s) % Len(v)) + 1]]

-----------------------------------------------------------------------------
(* Sensing operators.                                                      *)

\* torch.sum(temp, 1): the sum over the band axis
RECURSIVE SumBands(_, _, _, _, _)
SumBands(temp, b, h, w, n) ==
    IF n = 0 THEN RZero
    ELSE RAdd(SumBands(temp, b, h, w, n - 1), temp[b][n][h][w])

Sum1(temp) ==
    Force([b \in 1..Len(temp) |-> [h \in 1..Len(temp[b][1]) |->
        [w \in 1..Len(temp[b][1][h]) |-> SumBands(temp, b, h, w, Len(temp[b]))]]])

\* mutant: the mask is left out of the forward operator
A_unmasked(xx, PhiArg) == Sum1(xx)

A(xx, PhiArg) ==
    LET temp == TMul(xx, PhiArg)
    IN  Sum1(temp)

\* torch.unsqueeze(y, 1).repeat(1, Phi.shape[1], 1, 1)
UnsqueezeRepeat(y, n) ==
    Force([b \in 1..Len(y) |-> [c \in 1..n |-> y[b]]])

At(y, PhiArg) ==
    LET temp == UnsqueezeRepeat(y, Len(PhiArg[1]))
    IN  TMul(temp, PhiArg)

-----------------------------------------------------------------------------
(* Dispersion shift.                                                       *)

\* temp = zeros(B, C, H, W + (C-1)*step); temp[:, :, :, :W] = inputs
PadW(inputs, step) ==
    LET C == Len(inputs[1])
        W == Len(inputs[1][1][1])
    IN  Force([b \in 1..Len(inputs) |-> [c \in 1..C |-> [h \in 1..Len(inputs[b][c]) |->
            [w \in 1..(W + (C - 1) * step) |->
                IF w <= W THEN inputs[b][c][h][w] ELSE RZero]]]])

\* for i in range(C): t[:, i] = torch.roll(t[:, i], shifts = sign*step*i, dims = 2)
RollBands(t, step, sign) ==
    Force([b \in 1..Len(t) |-> [c \in 1..Len(t[b]) |-> [h \in 1..Len(t[b][c]) |->
        Roll(t[b][c][h], sign * step * (c - 1))]]])

shift_3d(inputs, step) == RollBands(PadW(inputs, step), step, 1)

\* mutant: the bands are rolled forward a second time instead of back
shift_back_3d_forward(inputs, step) == RollBands(inputs, step, 1)

shift_back_3d(inputs, step) == RollBands(inputs, step, -1)

\* the default value of the step parameter of shift_3d and shift_back_3d
DefaultStep == 2

-----------------------------------------------------------------------------
(* Construction: CAUN.__init__ builds one DADN and one LNLT per stage      *)
(* (range(STAGE)) or a single shared pair; every LocalNonLocalBlock builds *)
(* its SGLB attention with the literal window_size = 8, so the configured  *)
(* WINDOW_SIZE is stored and never used.  With STAGE <= 0 and unshared     *)
(* parameters the lists are empty and no LNLT, hence no Attention, exists. *)
(* No statement of the constructor inspects STAGE or WINDOW_SIZE.          *)

\* len(range(n))
RangeLen(n) == IF n > 0 THEN n ELSE 0

\* window_size passed to SGLB by LocalNonLocalBlock.__init__
SGLBWindow == 8

\* number of entries of Attention.relative_position_bias_table
BiasTableRows(ws) == (2 * ws - 1) * (2 * ws - 1)

\* number of LNLT modules built: one per stage, or the shared one
LNLTCount(c) == IF c.SHARE_PARAMS THEN 1 ELSE RangeLen(c.STAGE)

\* what the constructed object holds: the DP / PP modules, and the window size
\* and bias-table extent of the Attention modules inside the LNLTs (0 when no
\* Attention is built: NON_LOCAL off, or no LNLT at all)
CAUN_init(c) ==
    [raised |-> FALSE,
     DP |-> IF c.SHARE_PARAMS THEN 1 ELSE RangeLen(c.STAGE),
     PP |-> LNLTCount(c),
     attn_window |-> IF c.NON_LOCAL /\ LNLTCount(c) > 0 THEN SGLBWindow ELSE 0,
     bias_rows |-> IF c.NON_LOCAL /\ LNLTCount(c) > 0
                   THEN BiasTableRows(SGLBWindow) ELSE 0]

\* configurations handed to the constructor, non-positive STAGE and
\* WINDOW_SIZE included
CtorCfgs ==
    { [STAGE |-> st, WINDOW_SIZE |-> ws, SHARE_PARAMS |-> sh, NON_LOCAL |-> nl] :
      st \in -1..MaxStage, ws \in -1..SGLBWindow, sh \in BOOLEAN, nl \in BOOLEAN }

-----------------------------------------------------------------------------
(* Input families: integer-valued tensors of a given shape.                *)

\* 0-based position of (b, c, h, w) in a contiguous [B, C, H, W] tensor
Lin(C, H, W, b, c, h, w) == (((b - 1) * C + (c - 1)) * H + (h - 1)) * W + (w - 1)

\* kind 0: all zero; kind 1: every entry distinct; kind 2: 0/1 pattern;
\* kind 3: signed values in -1..1
PatVal(kind, n) ==
    CASE kind = 0 -> 0
      [] kind = 1 -> n + 1
      [] kind = 2 -> (n + (n \div 3)) % 2
      [] OTHER -> ((2 * n + 1) % 3) - 1

Gen4(kind, B, C, H, W) ==
    [b \in 1..B |-> [c \in 1..C |-> [h \in 1..H |-> [w \in 1..W |->
        R(PatVal(kind, Lin(C, H, W, b, c, h, w)))]]]]

Gen3(kind, B, H, W) ==
    [b \in 1..B |-> [h \in 1..H |-> [w \in 1..W |->
        R(PatVal(kind, Lin(1, H, W, b, 1, h, w)))]]]

-----------------------------------------------------------------------------
(* Harness of the pure operators: Init draws the arguments, one action per *)
(* operator applies it.  shift_back_3d writes its result into its argument *)
(* (inputs[:, i, :, :] = ...) and returns that same tensor.                *)

OpsIdle == [on |-> FALSE]

OpsInputs ==
    { [on |-> TRUE, x |-> Gen4(kx, B, C, H, W), Phi |-> Gen4(kp, B, C, H, W),
       y |-> Gen3(kx, B, H, W), step |-> s,
       x0 |-> Gen4(kx, B, C, H, W), Phi0 |-> Gen4(kp, B, C, H, W),
       y0 |-> Gen3(kx, B, H, W),
       shifted |-> None, back |-> None, meas |-> None, adj |-> None] :
      kx \in {1, 3}, kp \in {2, 3}, B \in 1..MaxOpSide, C \in 1..MaxBands,
      H \in 1..MaxOpSide, W \in 1..(MaxOpSide + 1), s \in 0..MaxStep }

OpShift ==
    /\ ops.on /\ ops.shifted = None /\ ops.back = None
    /\ ops' = [ops EXCEPT !.shifted = shift_3d(ops.x, ops.step)]
    /\ UNCHANGED ctrlVars /\ UNCHANGED <<ctor, attn, lnlt>>

OpShiftBack ==
    /\ ops.on /\ ops.shifted # None /\ ops.back = None
    /\ LET r == shift_back_3d(ops.shifted, ops.step)
       IN  ops' = [ops EXCEPT !.shifted = r, !.back = r]
    /\ UNCHANGED ctrlVars /\ UNCHANGED <<ctor, attn, lnlt>>

OpA ==
    /\ ops.on /\ ops.meas = None
    /\ ops' = [ops EXCEPT !.meas = A(ops.x, ops.Phi)]
    /\ UNCHANGED ctrlVars /\ UNCHANGED <<ctor, attn, lnlt>>

OpAt ==
    /\ ops.on /\ ops.adj = None
    /\ ops' = [ops EXCEPT !.adj = At(ops.y, ops.Phi)]
    /\ UNCHANGED ctrlVars /\ UNCHANGED <<ctor, attn, lnlt>>

CtrlIdle ==
    /\ cfg = None /\ params = None /\ data = None /\ pc = "idle" /\ err = ""
    /\ i = 0 /\ z = None /\ z_hat = None /\ z_list = <<>> /\ Phi = None
    /\ mu = None /\ noise_level = None /\ Phi_s = None /\ x = None
    /\ out = None /\ hist = None

CtorIdle == [on |-> FALSE]

AttnIdle == [on |-> FALSE]

LnltIdle == [on |-> FALSE]

InitOps ==
    /\ ops \in OpsInputs /\ ctor = CtorIdle /\ CtrlIdle
    /\ attn = AttnIdle /\ lnlt = LnltIdle

NextOps == OpShift \/ OpShiftBack \/ OpA \/ OpAt

SpecOps == InitOps /\ [][NextOps]_vars

-----------------------------------------------------------------------------
(* Construction of the model: CAUN(cfg).                                   *)

InitCtor ==
    /\ ops = OpsIdle /\ CtrlIdle /\ attn = AttnIdle /\ lnlt = LnltIdle
    /\ ctor \in { [on |-> TRUE, cfg |-> c, built |-> FALSE, obj |-> None] :
                   c \in CtorCfgs }

Construct ==
    /\ ctor.on /\ ~ctor.built
    /\ ctor' = [ctor EXCEPT !.built = TRUE, !.obj = CAUN_init(ctor.cfg)]
    /\ UNCHANGED ctrlVars /\ UNCHANGED <<ops, attn, lnlt>>

NextCtor == Construct

SpecCtor == InitCtor /\ [][NextCtor]_vars

(* C9 (as stated): construction never succeeds with a stage count <= 0 or  *)
(* a window size <= 0; such a configuration raises at construction time.   *)
C9_ConstructionFailsFast ==
    (ctor.on /\ ctor.built /\ ~ctor.obj.raised) =>
        (ctor.cfg.STAGE > 0 /\ ctor.cfg.WINDOW_SIZE > 0)

-----------------------------------------------------------------------------
(* C1 (as stated): applying shift_back_3d to the result of shift_3d with   *)
(* the same step yields a tensor equal to x in shape and content.          *)
C1_RoundTripIsX == (ops.on /\ ops.back # None) => ops.back = ops.x0

(* C1 (amended): the round trip returns a tensor of shape                  *)
(* [B, C, H, W + (C-1)*step] whose first W columns are x and whose other   *)
(* columns are zero; x itself is left as it was.                           *)
C1_RoundTripPadded ==
    (ops.on /\ ops.back # None) =>
        LET s4 == Shape4(ops.x0)
        IN  /\ Shape4(ops.back) = <<s4[1], s4[2], s4[3], s4[4] + (s4[2] - 1) * ops.step>>
            /\ CropW(ops.back, s4[4]) = ops.x0
            /\ \A b \in 1..s4[1], c \in 1..s4[2], h \in 1..s4[3] :
                 \A w \in (s4[4] + 1)..(s4[4] + (s4[2] - 1) * ops.step) :
                     ops.back[b][c][h][w] = RZero
            /\ ops.x = ops.x0

C1_Witness ==
    /\ ops.on /\ ops.back # None
    /\ Len(ops.x0[1]) = 2 /\ ops.step = 2 /\ Len(ops.x0[1][1][1]) >= 2
    /\ ops.x0[1][2][1][1] # RZero

RECURSIVE BandDot(_, _, _, _, _, _)
BandDot(xx, pp, b, h, w, n) ==
    IF n > Len(xx[b]) THEN RZero
    ELSE RAdd(RMul(xx[b][n][h][w], pp[b][n][h][w]), BandDot(xx, pp, b, h, w, n + 1))

(* C8: A(x, Phi) has shape [B, H, W] and entry (b, h, w) is the sum over   *)
(* the bands of x * Phi; At(y, Phi) has shape [B, N, H, W] and entry       *)
(* (b, n, h, w) is y[b, h, w] * Phi[b, n, h, w]; the arguments keep their  *)
(* values.                                                                 *)
C8_ForwardAdjoint ==
    ops.on =>
        LET s4 == Shape4(ops.x0)
        IN  /\ ops.meas # None =>
                /\ Shape3(ops.meas) = <<s4[1], s4[3], s4[4]>>
                /\ \A b \in 1..s4[1], h \in 1..s4[3], w \in 1..s4[4] :
                     ops.meas[b][h][w] = BandDot(ops.x0, ops.Phi0, b, h, w, 1)
            /\ ops.adj # None =>
                /\ Shape4(ops.adj) = s4
                /\ \A b \in 1..s4[1], n \in 1..s4[2], h \in 1..s4[3], w \in 1..s4[4] :
                     ops.adj[b][n][h][w] = RMul(ops.y0[b][h][w], ops.Phi0[b][n][h][w])
            /\ ops.x = ops.x0 /\ ops.Phi = ops.Phi0 /\ ops.y = ops.y0

C8_Witness ==
    /\ ops.on /\ ops.meas # None /\ ops.adj # None
    /\ Len(ops.x0) = 2 /\ Len(ops.x0[1]) = 2 /\ Len(ops.x0[1][1]) = 2
    /\ ops.meas[1][1][1] # RZero /\ ops.adj[2][2][2][1] # RZero

-----------------------------------------------------------------------------
(* The learned networks.  Their arithmetic (convolutions, attention) is    *)
(* not computed: a network is a function of its parameters, here of        *)
(* params.seed and of the index k of the instance (DP[i] / PP[i], or 0 for *)
(* the shared DP / PP), with the output shape the layers produce.          *)

\* self.fusion: a 1x1 convolution, 2*WAVE_LENS channels in, WAVE_LENS out
FusionWeight(seed, k, c) == R(((k + 2 * c + seed) % 3) - 1)
FusionBias(seed, k) == R(seed % 2)

RECURSIVE ConvSum(_, _, _, _, _, _, _)
ConvSum(seed, inp, b, k, h, w, c) ==
    IF c = 0 THEN FusionBias(seed, k)
    ELSE RAdd(ConvSum(seed, inp, b, k, h, w, c - 1),
              RMul(FusionWeight(seed, k, c), inp[b][c][h][w]))

fusion(seed, inp, outC) ==
    Force([b \in 1..Len(inp) |-> [k \in 1..outC |-> [h \in 1..Len(inp[b][1]) |->
        [w \in 1..Len(inp[b][1][h]) |-> ConvSum(seed, inp, b, k, h, w, Len(inp[b]))]]]])

\* torch.cat([s, t], dim=1)
Cat1(s, t) == Force([b \in 1..Len(s) |-> s[b] \o t[b]])

\* DADN.DL: [B, 2*nC, H, W] -> [B, nC, H, W]
DL(seed, k, inp, nC) ==
    [b \in 1..Len(inp) |-> [c \in 1..nC |-> [h \in 1..Len(inp[b][1]) |->
        [w \in 1..Len(inp[b][1][h]) |->
            IF seed = 0 THEN RZero ELSE R(((b + c + h + w + k) % 3) - 1)]]]]

\* DADN.mlp ends in nn.Softplus(): two non-negative values per batch element
Softplus(seed, k, ch) ==
    IF seed = 0 THEN RZero
    ELSE IF ch = 0 THEN <<1 + (k % 2), 2>> ELSE <<1, 4>>

\* the offset added to the output of DADN.mlp, 1e-6
Eps == <<1, 1000000>>

AddEps(v) == RAdd(v, Eps)

\* LNLT: spatial padding to multiples of 16 with mode='reflect'
PadBlock == 16
LNLT_pad(n) == (PadBlock - (n % PadBlock)) % PadBlock
\* F.pad(mode='reflect') raises unless the padding is less than the extent
ReflectPadOK(n) == LNLT_pad(n) < n

\* LNLT.forward on an input of spatial size h x w: [B, OUT_DIM, h, w]
LNLT(seed, k, B, nC, h, w) ==
    [b \in 1..B |-> [c \in 1..nC |-> [hh \in 1..h |-> [ww \in 1..w |->
        R(((c + 2 * hh + ww + k + seed) % 5) - 2)]]]]

-----------------------------------------------------------------------------
(* CAUN.initial                                                            *)

\* length of the Python slice [lo : hi] of a sequence of length n (0 <= lo)
SliceLen(lo, hi, n) ==
    LET e == IF hi < n THEN hi ELSE n
    IN  IF e > lo THEN e - lo ELSE 0

\* y_shift[:, i, :, lo:hi] = y[:, :, lo:hi] is accepted when the right side
\* has the extent of the left side or extent 1 (broadcast)
SetSliceOK(lenL, lenR) == lenR = lenL \/ lenR = 1

initial_ok(y, PhiArg, step) ==
    LET nC == Len(PhiArg[1])
        col == Len(PhiArg[1][1][1])
        L0 == col - (nC - 1) * step
    IN  /\ Len(y) = Len(PhiArg) /\ Len(y[1]) = Len(PhiArg[1][1])
        /\ \A c \in 1..nC :
             SetSliceOK(SliceLen(step * (c - 1), step * (c - 1) + L0, col),
                        SliceLen(step * (c - 1), step * (c - 1) + L0, Len(y[1][1])))

y_shift(y, PhiArg, step) ==
    LET nC == Len(PhiArg[1])
        col == Len(PhiArg[1][1][1])
        L0 == col - (nC - 1) * step
    IN  Force([b \in 1..Len(PhiArg) |-> [c \in 1..nC |-> [h \in 1..Len(PhiArg[b][c]) |->
            [w \in 1..col |->
                LET lo == step * (c - 1)
                    lenR == SliceLen(lo, lo + L0, Len(y[b][h]))
                IN  IF w - 1 >= lo /\ w - 1 < lo + L0
                    THEN (IF lenR = 1 THEN y[b][h][lo + 1] ELSE y[b][h][w])
                    ELSE RZero]]]])

initial(seed, y, PhiArg, step) ==
    fusion(seed, Cat1(y_shift(y, PhiArg, step), PhiArg), Len(PhiArg[1]))

-----------------------------------------------------------------------------
(* DADN.forward(y, phi): returns (phi + phi_r, mu, noise_level).           *)

\* torch.cat([phi, y], dim=1) needs equal batch, height and width
DADN_ok(zz, phi) ==
    /\ Len(zz) = Len(phi) /\ Len(zz[1][1]) = Len(phi[1][1])
    /\ Len(zz[1][1][1]) = Len(phi[1][1][1])

\* the caller's tensor after `phi = phi + phi_r`: the sum is a new tensor
\* bound to the local name, the argument keeps its value
DADN_arg_after(phi, phi_r) == phi

DADN_forward(seed, k, zz, phi) ==
    LET inp == Cat1(phi, zz)
        phi_r == DL(seed, k, inp, Len(phi[1]))
    IN  [Phi |-> TAdd(phi, phi_r),
         mu |-> [b \in 1..Len(phi) |-> AddEps(Softplus(seed, k, 0))],
         noise_level |-> [b \in 1..Len(phi) |-> AddEps(Softplus(seed, k, 1))],
         arg |-> DADN_arg_after(phi, phi_r)]

-----------------------------------------------------------------------------
(* The steps of one stage of CAUN.forward_test.                            *)

\* torch.FloatTensor([1e-6]), broadcast over the batch
FixedMu(B) == [b \in 1..B |-> Eps]

\* mutant: the refined mask of the stage before is handed on
DPMaskArg_carried(phi, PhiPrev) == IF PhiPrev = None THEN phi ELSE PhiPrev

\* the mask handed to self.DP in stage i: the caller's phi, not the Phi of the
\* stage before
DPMaskArg(phi, PhiPrev) == phi

\* mutant: the zero entries of Phi_s are left as they are
ZeroToOne_keep(v) == v

\* Phi_s[Phi_s == 0] = 1
ZeroToOne(v) == IF RIsZero(v) THEN ROne ELSE v

PhiS(PhiArg) ==
    LET sq == Sum1(TMul(PhiArg, PhiArg))
    IN  Force([b \in 1..Len(sq) |-> [h \in 1..Len(sq[b]) |-> [w \in 1..Len(sq[b][h]) |->
            ZeroToOne(sq[b][h][w])]]])

\* mu + Phi_s
Denominator(muA, PhisA) ==
    Force([b \in 1..Len(PhisA) |-> [h \in 1..Len(PhisA[b]) |-> [w \in 1..Len(PhisA[b][h]) |->
        RAdd(muA[b], PhisA[b][h][w])]]])

\* elementwise operands of lines 764-765 need equal extents (no extent of the
\* inputs of this model is 1 on one side only, so nothing is broadcast)
Grad_ok(zz, zh, yy, PhiArg) ==
    /\ Shape4(zh) = Shape4(PhiArg)
    /\ Shape3(yy) = <<Len(PhiArg), Len(PhiArg[1][1]), Len(PhiArg[1][1][1])>>
    /\ Shape4(zz) = Shape4(PhiArg)

\* mutant: the residual is taken at z instead of at the momentum point z_hat
GradStep_atZ(zz, zh, yy, PhiArg, muA, PhisA) ==
    LET Phi_z == A(zz, PhiArg)
        den == Denominator(muA, PhisA)
        q == Div3(Sub3(yy, Phi_z), den)
    IN  TAdd(zz, At(q, PhiArg))

\* x = z + At(torch.div(y - A(z_hat, Phi), mu + Phi_s), Phi)
GradStep(zz, zh, yy, PhiArg, muA, PhisA) ==
    LET Phi_z == A(zh, PhiArg)
        den == Denominator(muA, PhisA)
        q == Div3(Sub3(yy, Phi_z), den)
    IN  TAdd(zz, At(q, PhiArg))

\* beta = 0.5 * torch.ones((W, 1)): beta[i] exists for 0 <= i < W
BetaLen(W) == W
Beta(ii) == <<1, 2>>

\* z_hat = z + beta[i] * (z_list[-1] - z_list[-2])
Momentum(zz, zl, ii) ==
    LET d == TSub(zl[Len(zl)], zl[Len(zl) - 1])
    IN  TAdd(zz, TScale(Beta(ii), d))

\* mutant: the loop bound is off by one
LoopContinues_inclusive(ii, stage) == ii <= stage

\* for i in range(STAGE): another stage follows while i < STAGE
LoopContinues(ii, stage) == ii < stage

\* index of the instance used in stage i: self.DP[i] / self.PP[i], or the
\* shared self.DP / self.PP
Instance(c, ii) == IF c.SHARE_PARAMS THEN 0 ELSE ii + 1

-----------------------------------------------------------------------------
(* CAUN.forward_test as a state machine.                                   *)

MaxWidth == 9       \* true widths MaxWidth-1 .. MaxWidth, height MaxWidth

Cfgs ==
    { [STAGE |-> st, SHARE_PARAMS |-> sh, WITH_DL |-> dl, WITH_MU |-> wm,
       WITH_NOISE_LEVEL |-> nl, WAVE_LENS |-> nC, STEP |-> sp] :
      st \in 0..MaxStage, sh \in BOOLEAN, dl \in BOOLEAN, wm \in BOOLEAN,
      nl \in BOOLEAN, nC \in 1..MaxBands, sp \in 1..MaxStep }

\* the caller's record: mask [1, nC, H, W_ + (nC-1)*STEP], Y [1, H, width of
\* the mask + dW] (dW # 0: a measurement that does not fit the mask), and the
\* shape [1, nC, H, W_] of data['H'] and of data['hsi']
DataFor(c, W_, dW, km) ==
    LET col == W_ + (c.WAVE_LENS - 1) * c.STEP
    IN  [mask |-> Gen4(km, 1, c.WAVE_LENS, MaxWidth, col),
         Y |-> Gen3(2, 1, MaxWidth, col + dW),
         Hshape |-> <<1, c.WAVE_LENS, MaxWidth, W_>>,
         hsi |-> <<1, c.WAVE_LENS, MaxWidth, W_>>]

\* gen_meas_torch_batch(hsi, mask, ...) of csi.data, an external routine: a
\* measurement of the extent of the mask plane, whose content (pattern kind)
\* is its choice, and the cube H of the shape of hsi
gen_meas_torch_batch(hsiShape, mask, kind) ==
    [Y |-> Gen3(kind, Len(mask), Len(mask[1][1]), Len(mask[1][1][1])),
     H |-> hsiShape]

\* prepare_input: data['Y'] = YH['Y']; data['H'] = YH['H']
prepare_input(d, kind) ==
    LET YH == gen_meas_torch_batch(d.hsi, d.mask, kind)
    IN  [d EXCEPT !.Y = YH.Y, !.Hshape = YH.H]

Step(label) == hist.steps \o <<(<<label, i>>)>>

Raise(what) ==
    /\ pc' = "error" /\ err' = what
    /\ UNCHANGED <<cfg, params, data, i, z, z_hat, z_list, Phi, mu, noise_level,
                   Phi_s, x, out, hist>>

\* the configuration of the released model: learned mask refinement,
\* learned step size, noise-level conditioning, one network pair per stage
Reference(c) ==
    c.WITH_DL /\ c.WITH_MU /\ c.WITH_NOISE_LEVEL /\ ~c.SHARE_PARAMS

\* The runs of the model.  Every flag combination is run for the stage counts
\* 0..2 and the reference flags for every stage count, each with a fitting
\* measurement of true width MaxWidth, an all-zero and a 0/1 mask and both
\* parameter seeds; the reference flags are also run with a measurement one
\* column narrower or wider than the mask, and with the true width
\* MaxWidth - 1.  These are calls in evaluation mode; the reference flags
\* with up to one stage are also called in training mode, where the record
\* holds a measurement (fitting or not) that prepare_input replaces.
Scenarios ==
    { [cfg |-> c, params |-> [seed |-> sd, training |-> FALSE],
       data |-> DataFor(c, MaxWidth, 0, km)] :
        c \in { cc \in Cfgs : cc.STAGE <= 2 \/ Reference(cc) },
        sd \in 0..1, km \in {0, 2} }
    \cup
    { [cfg |-> c, params |-> [seed |-> 1, training |-> FALSE],
       data |-> DataFor(c, W_, dW, 2)] :
        c \in { cc \in Cfgs : cc.STAGE <= 1 /\ Reference(cc) },
        W_ \in (MaxWidth - 1)..MaxWidth, dW \in {-1, 0, 1} }
    \cup
    { [cfg |-> c, params |-> [seed |-> 1, training |-> TRUE],
       data |-> DataFor(c, MaxWidth, dW, 2)] :
        c \in { cc \in Cfgs : cc.STAGE <= 1 /\ Reference(cc) }, dW \in {0, 1} }

InitCtrl ==
    /\ ops = OpsIdle /\ ctor = CtorIdle /\ attn = AttnIdle /\ lnlt = LnltIdle
    /\ \E sc \in Scenarios :
         cfg = sc.cfg /\ params = sc.params /\ data = sc.data
    /\ pc = "forward" /\ err = "" /\ i = 0
    /\ z = None /\ z_hat = None /\ z_list = <<>> /\ Phi = None /\ mu = None
    /\ noise_level = None /\ Phi_s = None /\ x = None /\ out = None
    /\ hist = [mask0 |-> data.mask, Y0 |-> data.Y, z0 |-> None, steps |-> <<>>,
               dp_arg |-> None, z_prior |-> None, z_prev |-> None,
               zhat_mom |-> None, grad_z |-> None, grad_zhat |-> None]

\* lines 783-789 and 682-691: CAUN.forward.  In training mode prepare_input
\* rebinds data['Y'] and data['H'] and forward_train runs; otherwise
\* forward_test runs on the record as it is.  forward_train (lines 694-736)
\* and forward_test (lines 738-781) have the same body, modelled by the
\* actions below; hist.Y0 is the measurement that body is entered with.
Forward ==
    /\ pc = "forward"
    /\ IF params.training
       THEN \E kind \in {1, 2} :
               /\ data' = prepare_input(data, kind)
               /\ hist' = [hist EXCEPT !.Y0 = prepare_input(data, kind).Y]
       ELSE UNCHANGED <<data, hist>>
    /\ pc' = "start"
    /\ UNCHANGED <<cfg, params, err, i, z, z_hat, z_list, Phi, mu, noise_level,
                   Phi_s, x, out>>
    /\ UNCHANGED <<ops, ctor, attn, lnlt>>

\* lines 739-752 (695-707): z = self.initial(y, phi); z_hat = z; z_list = [z]
Initial ==
    /\ pc = "start"
    /\ IF ~initial_ok(data.Y, data.mask, cfg.STEP)
       THEN Raise("initial")
       ELSE LET z0 == initial(params.seed, data.Y, data.mask, cfg.STEP)
            IN  /\ z' = z0 /\ z_hat' = z0 /\ z_list' = <<z0>>
                /\ i' = 0
                /\ pc' = IF LoopContinues(0, cfg.STAGE) THEN "dadn" ELSE "terminal"
                /\ hist' = [hist EXCEPT !.z0 = z0, !.z_prior = z0, !.zhat_mom = z0,
                                        !.steps = Step("initial")]
                /\ UNCHANGED <<cfg, params, data, err, Phi, mu, noise_level,
                               Phi_s, x, out>>
    /\ UNCHANGED <<ops, ctor, attn, lnlt>>

\* lines 755-760: Phi, mu, noise_level = self.DP[i](z, phi), then the
\* WITH_DL / WITH_MU overrides
DADNStep ==
    /\ pc = "dadn"
    /\ LET arg == DPMaskArg(data.mask, Phi)
       IN  IF ~DADN_ok(z, arg)
           THEN Raise("dadn_cat")
           ELSE LET r == DADN_forward(params.seed, Instance(cfg, i), z, arg)
                IN  /\ Phi' = IF cfg.WITH_DL THEN r.Phi ELSE data.mask
                    /\ mu' = IF cfg.WITH_MU THEN r.mu ELSE FixedMu(Len(data.Y))
                    /\ noise_level' = r.noise_level
                    /\ data' = [data EXCEPT !.mask = r.arg]
                    /\ hist' = [hist EXCEPT !.dp_arg = arg, !.steps = Step("dadn")]
                    /\ pc' = "grad"
                    /\ UNCHANGED <<cfg, params, err, i, z, z_hat, z_list, Phi_s, x, out>>
    /\ UNCHANGED <<ops, ctor, attn, lnlt>>

\* lines 762-765: Phi_s, Phi_z, x
GradientStep ==
    /\ pc = "grad"
    /\ IF ~Grad_ok(z, z_hat, data.Y, Phi)
       THEN /\ Phi_s' = PhiS(Phi)
            /\ pc' = "error" /\ err' = "grad_shape"
            /\ UNCHANGED <<cfg, params, data, i, z, z_hat, z_list, Phi, mu,
                           noise_level, x, out, hist>>
       ELSE /\ Phi_s' = PhiS(Phi)
            /\ x' = GradStep(z, z_hat, data.Y, Phi, mu, PhiS(Phi))
            /\ hist' = [hist EXCEPT !.steps = Step("grad"), !.grad_z = z,
                                    !.grad_zhat = z_hat]
            /\ pc' = "unshift"
            /\ UNCHANGED <<cfg, params, data, err, i, z, z_hat, z_list, Phi, mu,
                           noise_level, out>>
    /\ UNCHANGED <<ops, ctor, attn, lnlt>>

\* line 766: x = shift_back_3d(x)[:, :, :, :W_]
UnshiftCrop ==
    /\ pc = "unshift"
    /\ x' = CropW(shift_back_3d(x, DefaultStep), data.Hshape[4])
    /\ hist' = [hist EXCEPT !.steps = Step("unshift")]
    /\ pc' = "prior"
    /\ UNCHANGED <<cfg, params, data, err, i, z, z_hat, z_list, Phi, mu,
                   noise_level, Phi_s, out>>
    /\ UNCHANGED <<ops, ctor, attn, lnlt>>

\* lines 767-771: z = self.PP[i](x) or self.PP[i](cat([noise_level_repeat, x]))
PriorStep ==
    /\ pc = "prior"
    /\ LET s4 == Shape4(x)
       IN  IF ~(ReflectPadOK(s4[3]) /\ ReflectPadOK(s4[4]))
           THEN Raise("prior_pad")
           ELSE /\ z' = LNLT(params.seed, Instance(cfg, i), s4[1], cfg.WAVE_LENS,
                             s4[3], s4[4])
                /\ hist' = [hist EXCEPT !.steps = Step("prior")]
                /\ pc' = "reshift"
                /\ UNCHANGED <<cfg, params, data, err, i, z_hat, z_list, Phi, mu,
                               noise_level, Phi_s, x, out>>
    /\ UNCHANGED <<ops, ctor, attn, lnlt>>

\* lines 772-773: z = shift_3d(z); z_list.append(z)
Reshift ==
    /\ pc = "reshift"
    /\ LET zs == shift_3d(z, DefaultStep)
       IN  /\ z' = zs
           /\ z_list' = Append(z_list, zs)
           /\ hist' = [hist EXCEPT !.steps = Step("reshift"), !.z_prior = zs,
                                   !.z_prev = hist.z_prior]
    /\ pc' = "momentum"
    /\ UNCHANGED <<cfg, params, data, err, i, z_hat, Phi, mu, noise_level,
                   Phi_s, x, out>>
    /\ UNCHANGED <<ops, ctor, attn, lnlt>>

\* line 774: z_hat = z + beta[i]*(z_list[-1]-z_list[-2]), then the loop header
MomentumStep ==
    /\ pc = "momentum"
    /\ IF ~(i < BetaLen(Len(data.mask[1][1][1])))
       THEN Raise("beta_index")
       ELSE IF Shape4(z_list[Len(z_list)]) # Shape4(z_list[Len(z_list) - 1])
       THEN Raise("momentum_shape")
       ELSE /\ z_hat' = Momentum(z, z_list, i)
            /\ hist' = [hist EXCEPT !.steps = Step("momentum"),
                                    !.zhat_mom = Momentum(z, z_list, i)]
            /\ i' = i + 1
            /\ pc' = IF LoopContinues(i + 1, cfg.STAGE) THEN "dadn" ELSE "terminal"
            /\ UNCHANGED <<cfg, params, data, err, z, z_list, Phi, mu, noise_level,
                           Phi_s, x, out>>
    /\ UNCHANGED <<ops, ctor, attn, lnlt>>

\* lines 777-781: z = shift_back_3d(z)[:, :, :, :W_]; out = z[:, :, :, :W_].
\* shift_back_3d rolls its argument in place: the last element of z_list (and
\* z_hat, when no stage ran) is that same tensor.
Terminal ==
    /\ pc = "terminal"
    /\ LET rolled == shift_back_3d(z, DefaultStep)
           zc == CropW(rolled, data.Hshape[4])
       IN  /\ z' = zc
           /\ out' = CropW(zc, data.Hshape[4])
           /\ z_list' = [z_list EXCEPT ![Len(z_list)] = rolled]
           /\ z_hat' = IF Len(z_list) = 1 THEN rolled ELSE z_hat
    /\ hist' = [hist EXCEPT !.steps = Step("terminal")]
    /\ pc' = "done"
    /\ UNCHANGED <<cfg, params, data, err, i, Phi, mu, noise_level, Phi_s, x>>
    /\ UNCHANGED <<ops, ctor, attn, lnlt>>

Init == InitCtrl

Next ==
    \/ Forward \/ Initial \/ DADNStep \/ GradientStep \/ UnshiftCrop \/ PriorStep
    \/ Reshift \/ MomentumStep \/ Terminal

Spec == Init /\ [][Next]_vars

-----------------------------------------------------------------------------
(* Properties of the controller.                                           *)

MaskWidth == Len(hist.mask0[1][1][1])
TrueWidth == data.Hshape[4]

(* C2: at every stage, for every mask (the all-zero mask included) and     *)
(* with mask refinement and learned step size on or off, every entry of    *)
(* Phi_s is non-zero, mu is strictly positive and every entry of           *)
(* mu + Phi_s is strictly positive.                                        *)
C2_NoDivisionByZero ==
    /\ (pc \in {"grad", "unshift", "prior", "reshift", "momentum"}) =>
           \A b \in 1..Len(mu) : RPos(mu[b])
    /\ (pc \in {"unshift", "prior", "reshift", "momentum"}
            \/ (pc = "error" /\ err = "grad_shape")) =>
           \A b \in 1..Len(Phi_s) : \A h \in 1..Len(Phi_s[b]) :
               \A w \in 1..Len(Phi_s[b][h]) :
                   /\ ~RIsZero(Phi_s[b][h][w])
                   /\ RPos(RAdd(mu[b], Phi_s[b][h][w]))

C2_Witness ==
    /\ pc = "unshift" /\ ~cfg.WITH_DL /\ ~cfg.WITH_MU
    /\ \A c \in 1..Len(hist.mask0[1]) : \A h \in 1..Len(hist.mask0[1][c]) :
           \A w \in 1..MaskWidth : hist.mask0[1][c][h][w] = RZero
    /\ Phi_s[1][1][1] = ROne

(* C3: with STAGE = 0 no DADN, gradient, prior or momentum step runs and   *)
(* the result is the initial fused estimate z0, every band c rolled back   *)
(* by 2*(c-1) columns and cropped to the true width.                       *)
C3_StageZeroReturnsInitial ==
    (pc = "done" /\ cfg.STAGE = 0) =>
        /\ hist.steps = << <<"initial", 0>>, <<"terminal", 0>> >>
        /\ Phi = None /\ mu = None /\ x = None
        /\ Shape4(out) = <<Len(hist.z0), Len(hist.z0[1]), Len(hist.z0[1][1]), TrueWidth>>
        /\ \A b \in 1..Len(out) : \A c \in 1..Len(out[b]) :
             \A h \in 1..Len(out[b][c]) : \A w \in 1..TrueWidth :
                out[b][c][h][w] =
                    hist.z0[b][c][h][((w - 1 + DefaultStep * (c - 1)) % MaskWidth) + 1]

C3_Witness ==
    /\ pc = "done" /\ cfg.STAGE = 0 /\ cfg.WAVE_LENS = 2
    /\ \E w \in 1..TrueWidth : out[1][2][1][w] # out[1][2][1][1]
    /\ \E w \in 1..TrueWidth :
         hist.z0[1][2][1][w] # hist.z0[1][2][1][((w - 1 + DefaultStep) % MaskWidth) + 1]

(* C4 (as stated): before the first stage z_hat = z0; after every stage    *)
(* z_hat = z_curr + beta*(z_curr - z_prev); and the coefficient looked up  *)
(* for stage i exists (and is 0.5) for every i in 0..STAGE-1, whatever the *)
(* stage count and the mask width.                                         *)
C4_MomentumCoefficientDefined ==
    /\ (pc = "dadn" /\ i = 0) => z_hat = hist.z0
    /\ (pc \in {"dadn", "terminal"} /\ i > 0) =>
           \A b \in 1..Len(z) : \A c \in 1..Len(z[b]) : \A h \in 1..Len(z[b][c]) :
               \A w \in 1..Len(z[b][c][h]) :
                   z_hat[b][c][h][w] =
                       RAdd(z[b][c][h][w],
                            RMul(<<1, 2>>, RSub(z[b][c][h][w], hist.z_prev[b][c][h][w])))
    /\ (pc = "momentum") => i < MaskWidth
    /\ (pc = "error") => err # "beta_index"

(* C5 (as stated): a measurement whose extent differs from the mask's is   *)
(* rejected before the stage loop is entered; forward_test never enters    *)
(* the loop or returns with such a measurement.                            *)
C5_MismatchRejectedBeforeLoop ==
    (Len(hist.Y0[1][1]) # MaskWidth) => pc \in {"forward", "start", "error"} /\ err \in {"", "initial"}

(* C6: the caller's mask and measurement keep the values they had on       *)
(* entry, and the mask handed to DADN in every stage is the caller's mask, *)
(* not the refined mask of the stage before.                               *)
C6_MaskNotOverwritten ==
    /\ data.mask = hist.mask0
    /\ data.Y = hist.Y0
    /\ (hist.dp_arg # None) => hist.dp_arg = hist.mask0

C6_Witness ==
    /\ pc = "grad" /\ i >= 1 /\ cfg.WITH_DL
    /\ Phi # data.mask

(* C7 (as stated): the returned reconstruction has the band count, height  *)
(* and width of the input mask.                                            *)
C7_OutputShapeIsMaskShape ==
    (pc = "done") => Shape4(out) = Shape4(hist.mask0)

(* C7 (amended): the returned reconstruction has the band count and height *)
(* of the input mask and the width of data['H'], which is the width of the *)
(* mask less (WAVE_LENS - 1) * STEP.                                       *)
C7_OutputShapeIsTrueExtent ==
    (pc = "done") =>
        /\ Shape4(out) = <<Len(hist.mask0), Len(hist.mask0[1]), Len(hist.mask0[1][1]),
                           TrueWidth>>
        /\ TrueWidth = MaskWidth - (cfg.WAVE_LENS - 1) * cfg.STEP

C7_Witness ==
    /\ pc = "done" /\ cfg.STAGE >= 2 /\ cfg.WAVE_LENS = 2
    /\ Len(out[1][1][1]) < MaskWidth

RECURSIVE StageSteps(_, _)
StageSteps(k, n) ==
    IF k >= n THEN <<>>
    ELSE << <<"dadn", k>>, <<"grad", k>>, <<"unshift", k>>, <<"prior", k>>,
            <<"reshift", k>>, <<"momentum", k>> >> \o StageSteps(k + 1, n)

ExpectedSteps(n) ==
    << <<"initial", 0>> >> \o StageSteps(0, n) \o << <<"terminal", n>> >>

(* C10: the steps executed are, in order, initial, then for i = 0..STAGE-1 *)
(* DADN, gradient, unshift/crop, prior, re-shift, momentum, then the       *)
(* terminal unshift/crop; a run that returns has executed exactly those;   *)
(* and the gradient step of stage i gives                                  *)
(* x = z + Phi' * (y - sum_n z_hat*Phi') / (mu + Phi_s) with z the         *)
(* re-shifted output of the prior of stage i-1 and z_hat the momentum      *)
(* point of stage i-1 (both z0 in stage 0).                                *)
C10_StageOrderAndGradient ==
    /\ Len(hist.steps) <= Len(ExpectedSteps(cfg.STAGE))
    /\ hist.steps = SubSeq(ExpectedSteps(cfg.STAGE), 1, Len(hist.steps))
    /\ (pc = "done") => hist.steps = ExpectedSteps(cfg.STAGE)
    /\ (pc = "unshift") =>
           \A b \in 1..Len(x) : \A c \in 1..Len(x[b]) : \A h \in 1..Len(x[b][c]) :
               \A w \in 1..Len(x[b][c][h]) :
                   x[b][c][h][w] =
                       RAdd(hist.z_prior[b][c][h][w],
                            RMul(Phi[b][c][h][w],
                                 RDiv(RSub(hist.Y0[b][h][w],
                                           BandDot(hist.zhat_mom, Phi, b, h, w, 1)),
                                      RAdd(mu[b], Phi_s[b][h][w]))))

C10_Witness ==
    /\ pc = "unshift" /\ i >= 1 /\ cfg.WAVE_LENS = 2
    /\ hist.zhat_mom # hist.z_prior
    /\ x # hist.z_prior

-----------------------------------------------------------------------------
(* The step of the shifts of the controller.                               *)

(* C11 (as stated): every shift and unshift of the controller uses the     *)
(* configured step cfg.DATASETS.STEP: the estimate re-shifted after the    *)
(* prior has the width of the mask, the momentum update and the gradient   *)
(* step of the next stage never fail on a shape, and with no stage the     *)
(* output is the initial estimate unshifted by the configured step.        *)
C11_ConfiguredStepEverywhere ==
    /\ (pc = "momentum" => Len(z[1][1][1]) = MaskWidth)
    /\ (Shape3(hist.Y0) = <<1, MaxWidth, MaskWidth>>
          => err \notin {"momentum_shape", "grad_shape", "dadn_cat"})
    /\ (pc = "done" /\ cfg.STAGE = 0
          => out = CropW(shift_back_3d(hist.z0, cfg.STEP), TrueWidth))

-----------------------------------------------------------------------------
(* Attention (lines 476-609), get_relative_position_index (612-624) and    *)
(* window_reverse (626-639).  A token is named by where its content comes  *)
(* from: <<b, r, c>> for the token of batch element b at row r, column c   *)
(* of the H x W grid, Pad for a position appended by F.pad (its content is *)
(* the zero vector), Cls for the global token.  The result of an attention *)
(* call is the record of what it is computed from: the query, the keys /   *)
(* values of its softmax in their order, and the bias table row of each    *)
(* key.                                                                    *)

MaxGrid == 4        \* grid heights and widths 1..MaxGrid
MaxWin == 3         \* window sizes 1..MaxWin
MaxWindows == 4     \* inputs with up to MaxWindows windows

Pad == <<0, 0, 0>>
Cls(b) == <<b, 0, 0>>

\* pad_r = (ws - W % ws) % ws, pad_b = (ws - H % ws) % ws
attn_pad(n, ws) == (ws - (n % ws)) % ws

\* mutant: the row offset is not scaled by 2 * win_w - 1
get_relative_position_index_unscaled(win_h, win_w) ==
    [p \in 1..(win_h * win_w) |-> [q \in 1..(win_h * win_w) |->
        LET dr == ((p - 1) \div win_w) - ((q - 1) \div win_w) + (win_h - 1)
            dc == ((p - 1) % win_w) - ((q - 1) % win_w) + (win_w - 1)
        IN  dr + dc]]

\* relative_coords[p, q] = coords_flatten[:, p] - coords_flatten[:, q], first
\* coordinate + win_h - 1 and * (2 * win_w - 1), second + win_w - 1, summed
get_relative_position_index(win_h, win_w) ==
    [p \in 1..(win_h * win_w) |-> [q \in 1..(win_h * win_w) |->
        LET dr == ((p - 1) \div win_w) - ((q - 1) \div win_w) + (win_h - 1)
            dc == ((p - 1) % win_w) - ((q - 1) % win_w) + (win_w - 1)
        IN  dr * (2 * win_w - 1) + dc]]

\* .view(-1) of an [n, n] tensor
Flatten2(m) ==
    [k \in 1..(Len(m) * Len(m)) |-> m[((k - 1) \div Len(m)) + 1][((k - 1) % Len(m)) + 1]]

\* Attention.__init__: window_size, attn_area, the bias table extent and the
\* registered index buffer
Attention_init(ws) ==
    [window_size |-> ws, attn_area |-> ws * ws,
     table_rows |-> BiasTableRows(ws),
     relative_position_index |-> Flatten2(get_relative_position_index(ws, ws))]

\* relative_position_bias_table[relative_position_index].view(area, area, -1):
\* the table row added to the score of query p and key q
BiasRow(obj, p, q) == obj.relative_position_index[(p - 1) * obj.attn_area + q]

\* x_img.view(B, H, W, C) of the image tokens of the input
ImgTokens(B, H, W) == [b \in 1..B |-> [n \in 1..(H * W) |->
                          <<b, ((n - 1) \div W) + 1, ((n - 1) % W) + 1>>]]

\* F.pad(x_img, (0, 0, 0, pad_r, 0, pad_b)).view(B, -1, C)
PadTokens(t, H, W, ws) ==
    LET Hp == H + attn_pad(H, ws)
        Wp == W + attn_pad(W, ws)
    IN  [b \in 1..Len(t) |-> [n \in 1..(Hp * Wp) |->
            LET r == (n - 1) \div Wp
                c == (n - 1) % Wp
            IN  IF r < H /\ c < W THEN t[b][r * W + c + 1] ELSE Pad]]

\* view(B, heads, h_group, ws, w_group, ws, -1).permute(0, 2, 4, 1, 3, 5, 6)
\* .view(-1, heads, ws * ws, C): window k holds the tokens of its ws x ws
\* block in row-major order
WindowPartition(t, Hp, Wp, ws) ==
    LET hg == Hp \div ws
        wg == Wp \div ws
    IN  [k \in 1..(Len(t) * hg * wg) |-> [m \in 1..(ws * ws) |->
            LET b == (k - 1) \div (hg * wg)
                gh == ((k - 1) \div wg) % hg
                gw == (k - 1) % wg
                ii == (m - 1) \div ws
                jj == (m - 1) % ws
            IN  t[b + 1][(gh * ws + ii) * Wp + gw * ws + jj + 1]]]

\* (q @ k^T * scale + pos_bias).softmax(-1) @ v of one window
WindowAttention(obj, qw, kw) ==
    [m \in 1..Len(qw) |->
        [q |-> qw[m], kv |-> kw,
         bias |-> [n \in 1..Len(kw) |-> BiasRow(obj, m, n)]]]

\* mutant: the fold leaves out the permute of the window and the in-window row
window_reverse_flat(windows, H, W, ws) ==
    LET B == Len(windows) \div ((H * W) \div (ws * ws))
    IN  [b \in 1..B |-> [n \in 1..(H * W) |->
            LET f == (b - 1) * H * W + (n - 1)
            IN  windows[(f \div (ws * ws)) + 1][(f % (ws * ws)) + 1]]]

\* windows.view(B, H // ws, W // ws, ws, ws, -1).permute(0, 1, 3, 2, 4, 5)
\* .reshape(B, H * W, -1)
window_reverse(windows, H, W, ws) ==
    LET B == Len(windows) \div ((H * W) \div (ws * ws))
        hg == H \div ws
        wg == W \div ws
    IN  [b \in 1..B |-> [n \in 1..(H * W) |->
            LET r == (n - 1) \div W
                c == (n - 1) % W
            IN  windows[((b - 1) * hg + (r \div ws)) * wg + (c \div ws) + 1]
                       [(r % ws) * ws + (c % ws) + 1]]]

\* t.view(B, Hp, Wp, -1)[:, :H, :W].reshape(B, H * W, -1)
CropTokens(t, Hp, Wp, H, W) ==
    [b \in 1..Len(t) |-> [n \in 1..(H * W) |->
        t[b][((n - 1) \div W) * Wp + ((n - 1) % W) + 1]]]

-----------------------------------------------------------------------------
(* Attention.forward as a state machine.  The batched matrix products of   *)
(* forward_local work on every window independently; the model lets the    *)
(* windows be computed one at a time in any order.                         *)

\* a token of the padded grid: its content and its place <<b, n>>
Tagged(t) == [b \in 1..Len(t) |-> [n \in 1..Len(t[b]) |->
                 [src |-> t[b][n], pos |-> <<b, n>>]]]

NumWindows(B, H, W, ws) ==
    B * ((H + attn_pad(H, ws)) \div ws) * ((W + attn_pad(W, ws)) \div ws)

AttnShapes ==
    { sh \in (1..MaxOpSide) \X (1..MaxGrid) \X (1..MaxGrid) \X (1..MaxWin) :
        NumWindows(sh[1], sh[2], sh[3], sh[4]) <= MaxWindows }

AttnInputs ==
    { [on |-> TRUE, pc |-> "new", B |-> sh[1], H |-> sh[2], W |-> sh[3],
       ws |-> sh[4],
       obj |-> None, Hp |-> 0, Wp |-> 0, q_img |-> None, k_img |-> None,
       q_win |-> None, k_win |-> None, win_out |-> None, inorder |-> TRUE,
       x_local |-> None, x_img |-> None, q_crop |-> None, k_crop |-> None,
       x_cls |-> None, x_out |-> None] : sh \in AttnShapes }

\* Attention(dim, window_size = ws)
AttnConstruct ==
    /\ attn.on /\ attn.pc = "new"
    /\ attn' = [attn EXCEPT !.obj = Attention_init(attn.ws), !.pc = "pad"]
    /\ UNCHANGED ctrlVars /\ UNCHANGED <<ops, ctor, lnlt>>

\* lines 573-590: pad, qkv (one token in, one token out), split
AttnPad ==
    /\ attn.on /\ attn.pc = "pad"
    /\ LET t == Tagged(PadTokens(ImgTokens(attn.B, attn.H, attn.W),
                                 attn.H, attn.W, attn.ws))
       IN  attn' = [attn EXCEPT !.Hp = attn.H + attn_pad(attn.H, attn.ws),
                                !.Wp = attn.W + attn_pad(attn.W, attn.ws),
                                !.q_img = t, !.k_img = t, !.pc = "partition"]
    /\ UNCHANGED ctrlVars /\ UNCHANGED <<ops, ctor, lnlt>>

\* lines 534-544: partition q, k, v to windows
Partition ==
    /\ attn.on /\ attn.pc = "partition"
    /\ LET qw == WindowPartition(attn.q_img, attn.Hp, attn.Wp, attn.ws)
           kw == WindowPartition(attn.k_img, attn.Hp, attn.Wp, attn.ws)
       IN  attn' = [attn EXCEPT !.q_win = qw, !.k_win = kw,
                                !.win_out = [k \in 1..Len(qw) |-> None],
                                !.pc = "local"]
    /\ UNCHANGED ctrlVars /\ UNCHANGED <<ops, ctor, lnlt>>

\* lines 546-550 for one window
LocalWindow ==
    /\ attn.on /\ attn.pc = "local"
    /\ \E k \in 1..Len(attn.win_out) :
         /\ attn.win_out[k] = None
         /\ attn' = [attn EXCEPT
                !.win_out[k] = WindowAttention(attn.obj, attn.q_win[k], attn.k_win[k]),
                !.inorder = attn.inorder /\ \A j \in 1..(k - 1) : attn.win_out[j] # None]
    /\ UNCHANGED ctrlVars /\ UNCHANGED <<ops, ctor, lnlt>>

\* line 553: x = window_reverse(x, (H, W), (ws, ws)), once every window is there
WindowReverse ==
    /\ attn.on /\ attn.pc = "local"
    /\ \A k \in 1..Len(attn.win_out) : attn.win_out[k] # None
    /\ attn' = [attn EXCEPT
           !.x_local = window_reverse(attn.win_out, attn.Hp, attn.Wp, attn.ws),
           !.pc = "restore"]
    /\ UNCHANGED ctrlVars /\ UNCHANGED <<ops, ctor, lnlt>>

\* lines 595-598: restore to the original size
Restore ==
    /\ attn.on /\ attn.pc = "restore"
    /\ attn' = [attn EXCEPT
           !.x_img = CropTokens(attn.x_local, attn.Hp, attn.Wp, attn.H, attn.W),
           !.q_crop = CropTokens(attn.q_img, attn.Hp, attn.Wp, attn.H, attn.W),
           !.k_crop = CropTokens(attn.k_img, attn.Hp, attn.Wp, attn.H, attn.W),
           !.pc = "aggregate"]
    /\ UNCHANGED ctrlVars /\ UNCHANGED <<ops, ctor, lnlt>>

\* lines 601-602: the global token attends to the cropped image tokens
GlobalAggregation ==
    /\ attn.on /\ attn.pc = "aggregate"
    /\ attn' = [attn EXCEPT
           !.x_cls = [b \in 1..attn.B |-> [q |-> Cls(b), kv |-> attn.k_crop[b]]],
           !.pc = "broadcast"]
    /\ UNCHANGED ctrlVars /\ UNCHANGED <<ops, ctor, lnlt>>

\* lines 605-609: every cropped image token attends to the global token
GlobalBroadcast ==
    /\ attn.on /\ attn.pc = "broadcast"
    /\ attn' = [attn EXCEPT
           !.x_out = [b \in 1..attn.B |-> [n \in 1..(attn.H * attn.W) |->
                        [local |-> attn.x_img[b][n],
                         bcast |-> [q |-> attn.q_crop[b][n],
                                    kv |-> <<attn.x_cls[b]>>]]]],
           !.pc = "done"]
    /\ UNCHANGED ctrlVars /\ UNCHANGED <<ops, ctor, lnlt>>

InitAttn == ops = OpsIdle /\ ctor = CtorIdle /\ CtrlIdle /\ lnlt = LnltIdle
            /\ attn \in AttnInputs

NextAttn ==
    \/ AttnConstruct \/ AttnPad \/ Partition \/ LocalWindow \/ WindowReverse
    \/ Restore \/ GlobalAggregation \/ GlobalBroadcast

SpecAttn == InitAttn /\ [][NextAttn]_vars

-----------------------------------------------------------------------------
(* Properties of Attention.                                                *)

(* C12 (as stated): the output of Attention.forward has H * W image tokens *)
(* and no position appended by the padding is a key / value of the softmax *)
(* of a token that survives the crop, in the local window pass, the global *)
(* aggregation or the global broadcast.                                    *)
C12_PaddingNeverLeaks ==
    (attn.on /\ attn.pc = "done") =>
        \A b \in 1..attn.B :
            /\ Len(attn.x_out[b]) = attn.H * attn.W
            /\ \A m \in 1..Len(attn.x_cls[b].kv) : attn.x_cls[b].kv[m].src # Pad
            /\ \A n \in 1..Len(attn.x_out[b]) :
                 /\ attn.x_out[b][n].bcast.kv = <<attn.x_cls[b]>>
                 /\ attn.x_out[b][n].bcast.q.src # Pad
                 /\ \A m \in 1..Len(attn.x_out[b][n].local.kv) :
                      attn.x_out[b][n].local.kv[m].src # Pad

\* row and column offset of window positions p and q
RelOffset(ws, p, q) ==
    <<((p - 1) \div ws) - ((q - 1) \div ws), ((p - 1) % ws) - ((q - 1) % ws)>>

(* C14: the index buffer of a constructed Attention is the value of        *)
(* get_relative_position_index for its window size and stays so through   *)
(* the forward call; every entry lies inside the bias table, and two pairs *)
(* of window positions have the same entry exactly when they have the same *)
(* relative offset.                                                        *)
C14_RelativeIndexByOffset ==
    (attn.on /\ attn.pc # "new") =>
        /\ attn.obj.relative_position_index
             = Flatten2(get_relative_position_index(attn.ws, attn.ws))
        /\ Len(attn.obj.relative_position_index) = attn.obj.attn_area * attn.obj.attn_area
        /\ attn.pc = "pad" =>
             \A p, q \in 1..attn.obj.attn_area :
                /\ BiasRow(attn.obj, p, q) \in 0..(attn.obj.table_rows - 1)
                /\ \A p2, q2 \in 1..attn.obj.attn_area :
                     (RelOffset(attn.ws, p, q) = RelOffset(attn.ws, p2, q2))
                       <=> (BiasRow(attn.obj, p, q) = BiasRow(attn.obj, p2, q2))

\* a window of at least 2 x 2 positions: the pairs (1, 2) and (ws + 1, ws + 2)
\* share an offset, the pairs (1, 2) and (2, 1) do not, and the entries are used
C14_Witness ==
    /\ attn.on /\ attn.pc = "done" /\ attn.ws >= 2
    /\ BiasRow(attn.obj, 1, 2) = BiasRow(attn.obj, attn.ws + 1, attn.ws + 2)
    /\ BiasRow(attn.obj, 1, 2) # BiasRow(attn.obj, 2, 1)
    /\ attn.x_out[1][1].local.bias[2] = BiasRow(attn.obj, 1, 2)

\* positions n1 and n2 of the padded grid lie in the same ws x ws block
SameBlock(n1, n2, Wp, ws) ==
    /\ ((n1 - 1) \div Wp) \div ws = ((n2 - 1) \div Wp) \div ws
    /\ ((n1 - 1) % Wp) \div ws = ((n2 - 1) % Wp) \div ws

(* C15: whatever the order in which the windows are computed, every token  *)
(* of the padded grid is in exactly one window, the output of a window is  *)
(* computed from the tokens of that window only, and after window_reverse  *)
(* the token at grid position n is the output of the query that came from  *)
(* position n, computed from the ws * ws tokens of the block of n.         *)
C15_WindowOrderIndependent ==
    /\ (attn.on /\ attn.pc \in {"local", "restore", "aggregate", "broadcast", "done"}) =>
         /\ \A b \in 1..attn.B : \A n \in 1..(attn.Hp * attn.Wp) :
              Cardinality({ km \in (1..Len(attn.q_win)) \X (1..(attn.ws * attn.ws)) :
                              attn.q_win[km[1]][km[2]].pos = <<b, n>> }) = 1
         /\ \A k \in 1..Len(attn.win_out) :
              attn.win_out[k] # None =>
                \A m \in 1..Len(attn.win_out[k]) :
                   /\ attn.win_out[k][m].q = attn.q_win[k][m]
                   /\ attn.win_out[k][m].kv = attn.k_win[k]
    /\ (attn.on /\ attn.pc \in {"restore", "aggregate", "broadcast", "done"}) =>
         \A b \in 1..attn.B : \A n \in 1..(attn.Hp * attn.Wp) :
            LET t == attn.x_local[b][n]
            IN  /\ t.q.pos = <<b, n>>
                /\ Len(t.kv) = attn.ws * attn.ws
                /\ Cardinality({ t.kv[m].pos : m \in 1..Len(t.kv) }) = attn.ws * attn.ws
                /\ \A m \in 1..Len(t.kv) :
                     /\ t.kv[m].pos[1] = b
                     /\ SameBlock(t.kv[m].pos[2], n, attn.Wp, attn.ws)

\* a finished call whose windows (two or more side by side, each of several
\* tokens) were not computed in index order
C15_Witness ==
    /\ attn.on /\ attn.pc = "done" /\ ~attn.inorder
    /\ attn.ws >= 2 /\ attn.Wp \div attn.ws >= 2
    /\ attn.x_local[1][attn.ws + 1].q.pos = <<1, attn.ws + 1>>

-----------------------------------------------------------------------------
(* LNLT.forward (lines 348-381) on the shapes <<C, H, W>> of its locals.   *)
(* A LocalNonLocalBlock returns x + Attention(x) + ffn(...), of the shape  *)
(* of x.                                                                   *)

MaxExtent == 17     \* input heights and widths 1..MaxExtent

\* output extent of nn.Conv2d(kernel_size = k, stride = s, padding = p)
Conv2dOut(n, k, s, p) == ((n + 2 * p - k) \div s) + 1

\* output extent of nn.ConvTranspose2d(kernel_size = k, stride = s, padding = 0)
ConvTranspose2dOut(n, k, s) == (n - 1) * s + k

\* nn.Conv2d(in_channels, in_channels * 2, 4, 2, 1)
DownSample(sh) == <<sh[1] * 2, Conv2dOut(sh[2], 4, 2, 1), Conv2dOut(sh[3], 4, 2, 1)>>

\* nn.ConvTranspose2d(in_channels, in_channels // 2, stride = 2, kernel_size = 2)
UpSample(sh) ==
    <<sh[1] \div 2, ConvTranspose2dOut(sh[2], 2, 2), ConvTranspose2dOut(sh[3], 2, 2)>>

\* nn.Conv2d(cin, cout, kernel_size = 3, stride = 1, padding = 1)
Conv3x3(sh, cout) == <<cout, Conv2dOut(sh[2], 3, 1, 1), Conv2dOut(sh[3], 3, 1, 1)>>

\* torch.cat([a, b], dim = 1) needs equal heights and widths
CatOK(a, b) == a[2] = b[2] /\ a[3] = b[3]

\* the 1 x 1 convolution self.fusions[k] after the concatenation
CatFuse(a, b, cout) == <<cout, a[2], a[3]>>

LnltInputs ==
    { [on |-> TRUE, pc |-> "pad", err |-> "", noise |-> nl,
       IN_DIM |-> IF nl THEN nC + 1 ELSE nC, DIM |-> nC, OUT_DIM |-> nC,
       h_inp |-> h, w_inp |-> w, x |-> <<IF nl THEN nC + 1 ELSE nC, h, w>>,
       res1 |-> None, res2 |-> None, res4 |-> None, up2 |-> None,
       dec_res2 |-> None, up1 |-> None, dec_res1 |-> None, out |-> None] :
      nl \in BOOLEAN, nC \in 1..MaxBands, h \in 1..MaxExtent, w \in 1..MaxExtent }

LnltRaise(what) == lnlt' = [lnlt EXCEPT !.pc = "error", !.err = what]

\* lines 349-353: F.pad(x, [0, pad_w, 0, pad_h], mode = 'reflect'); a reflect
\* padding must be smaller than the extent it pads
LnltPad ==
    /\ lnlt.on /\ lnlt.pc = "pad"
    /\ IF ~(ReflectPadOK(lnlt.h_inp) /\ ReflectPadOK(lnlt.w_inp))
       THEN LnltRaise("reflect_pad")
       ELSE lnlt' = [lnlt EXCEPT !.x = <<lnlt.x[1], lnlt.h_inp + LNLT_pad(lnlt.h_inp),
                                         lnlt.w_inp + LNLT_pad(lnlt.w_inp)>>,
                                 !.pc = "enc1"]
    /\ UNCHANGED ctrlVars /\ UNCHANGED <<ops, ctor, attn>>

\* lines 356-357: x1 = self.embedding(x); res1 = self.Encoder[0](x1)
LnltEncoder0 ==
    /\ lnlt.on /\ lnlt.pc = "enc1"
    /\ lnlt' = [lnlt EXCEPT !.res1 = Conv3x3(lnlt.x, lnlt.DIM), !.pc = "enc2"]
    /\ UNCHANGED ctrlVars /\ UNCHANGED <<ops, ctor, attn>>

\* lines 359-360: x2 = self.Downs[0](res1); res2 = self.Encoder[1](x2)
LnltEncoder1 ==
    /\ lnlt.on /\ lnlt.pc = "enc2"
    /\ lnlt' = [lnlt EXCEPT !.res2 = DownSample(lnlt.res1), !.pc = "bottleneck"]
    /\ UNCHANGED ctrlVars /\ UNCHANGED <<ops, ctor, attn>>

\* lines 362-363: x4 = self.Downs[1](res2); res4 = self.BottleNeck(x4)
LnltBottleNeck ==
    /\ lnlt.on /\ lnlt.pc = "bottleneck"
    /\ lnlt' = [lnlt EXCEPT !.res4 = DownSample(lnlt.res2), !.pc = "dec2"]
    /\ UNCHANGED ctrlVars /\ UNCHANGED <<ops, ctor, attn>>

\* lines 365-368: up, concatenate with res2, fuse, Decoder[0]
LnltDecoder0 ==
    /\ lnlt.on /\ lnlt.pc = "dec2"
    /\ LET u == UpSample(lnlt.res4)
       IN  IF ~CatOK(u, lnlt.res2)
           THEN lnlt' = [lnlt EXCEPT !.up2 = u, !.pc = "error", !.err = "cat"]
           ELSE lnlt' = [lnlt EXCEPT !.up2 = u,
                                     !.dec_res2 = CatFuse(u, lnlt.res2, lnlt.DIM * 2),
                                     !.pc = "dec1"]
    /\ UNCHANGED ctrlVars /\ UNCHANGED <<ops, ctor, attn>>

\* lines 370-373: up, concatenate with res1, fuse, Decoder[1]
LnltDecoder1 ==
    /\ lnlt.on /\ lnlt.pc = "dec1"
    /\ LET u == UpSample(lnlt.dec_res2)
       IN  IF ~CatOK(u, lnlt.res1)
           THEN lnlt' = [lnlt EXCEPT !.up1 = u, !.pc = "error", !.err = "cat"]
           ELSE lnlt' = [lnlt EXCEPT !.up1 = u,
                                     !.dec_res1 = CatFuse(u, lnlt.res1, lnlt.DIM),
                                     !.pc = "map"]
    /\ UNCHANGED ctrlVars /\ UNCHANGED <<ops, ctor, attn>>

\* lines 375-381: out = self.mapping(dec_res1) + x or + x[:, 1:, :, :], then
\* out[:, :, :h_inp, :w_inp]
LnltMapping ==
    /\ lnlt.on /\ lnlt.pc = "map"
    /\ LET mp == Conv3x3(lnlt.dec_res1, lnlt.OUT_DIM)
           xs == IF lnlt.noise THEN <<lnlt.x[1] - 1, lnlt.x[2], lnlt.x[3]>> ELSE lnlt.x
           extent(n, lim) == IF lim < n THEN lim ELSE n
       IN  IF mp # xs
           THEN LnltRaise("add")
           ELSE lnlt' = [lnlt EXCEPT !.out = <<mp[1], extent(mp[2], lnlt.h_inp),
                                               extent(mp[3], lnlt.w_inp)>>,
                                     !.pc = "done"]
    /\ UNCHANGED ctrlVars /\ UNCHANGED <<ops, ctor, attn>>

InitLnlt == ops = OpsIdle /\ ctor = CtorIdle /\ CtrlIdle /\ attn = AttnIdle
            /\ lnlt \in LnltInputs

NextLnlt ==
    \/ LnltPad \/ LnltEncoder0 \/ LnltEncoder1 \/ LnltBottleNeck
    \/ LnltDecoder0 \/ LnltDecoder1 \/ LnltMapping

SpecLnlt == InitLnlt /\ [][NextLnlt]_vars

(* C13 (as stated): for every input height h and width w, LNLT.forward     *)
(* pads by 0..15 rows and columns to the smallest multiples of 16 that are *)
(* >= h and >= w, each up-sampled decoder map has the height and width of  *)
(* the encoder map it is concatenated with, and the call returns a tensor  *)
(* of exactly h x w.                                                       *)
C13_PadSkipCrop ==
    lnlt.on =>
        /\ lnlt.err = ""
        /\ lnlt.pc \notin {"pad", "error"} =>
             /\ lnlt.x[2] % PadBlock = 0 /\ lnlt.x[3] % PadBlock = 0
             /\ lnlt.x[2] - lnlt.h_inp \in 0..(PadBlock - 1)
             /\ lnlt.x[3] - lnlt.w_inp \in 0..(PadBlock - 1)
        /\ lnlt.pc \in {"dec1", "map", "done"} => CatOK(lnlt.up2, lnlt.res2)
        /\ lnlt.pc \in {"map", "done"} => CatOK(lnlt.up1, lnlt.res1)
        /\ lnlt.pc = "done" =>
             lnlt.out = <<lnlt.OUT_DIM, lnlt.h_inp, lnlt.w_inp>>

====
